---- MODULE Spec2Model ----
(***************************************************************************)
(* Model of cmd/bulk_load_timescaledb/main.go: the bulk loader that reads  *)
(* a header and data lines from stdin, batches the data lines by           *)
(* hypertable (scan), hands the batches over the buffered channel          *)
(* batchChan to `workers` goroutines (processBatches) that COPY them into  *)
(* the database, while report samples the atomic counters.                 *)
(*                                                                         *)
(* A line of input is the sequence of its comma separated tokens; a token  *)
(* is the sequence of its characters.  The empty line is << <<>> >>.       *)
(***************************************************************************)
EXTENDS Integers, Sequences, FiniteSets, TLC

VARIABLES
    flags,        \* the program option vars (main.go 24-38, set by init)
    stdin,        \* the lines the scanner yields before it stops (end of input, or an error)
    pos,          \* number of lines the bufio.Scanner has yielded so far
    mainPc,       \* position of the main goroutine (main, initBenchmarkDB, scan)
    ddl,          \* statements initBenchmarkDB has executed, in order
    spawned,      \* main's loop variable i of the worker start loop
    batchChan,    \* [made, closed, buf]: the channel of *hypertableBatch
    inputDone,    \* "open" / "closed": the channel inputDone
    wgCount,      \* counter of workersGroup
    sc,           \* scan's locals [batch, n, linesRead, pending]
    rowsRead,     \* main's rowsRead (value returned by scan)
    wk,           \* per worker: [pc, batch, idx, cols, tx, conn]
    columnCount,  \* atomic counter columnCount
    rowCount,     \* atomic counter rowCount
    dbRows,       \* rows committed to the benchmark database: set of [table, line]
    rep,          \* report's [pc, colCount]: its position and the column count it loaded
    aborted,      \* "none", or why the process died (panic / log.Fatalf)
    published,    \* history: [batch, final] for every send on batchChan, in send order;
                  \* final tells the sends of the flush at the end of input
    consumed      \* history: every batch received from batchChan, in receive order

vars == <<flags, stdin, pos, mainPc, ddl, spawned, batchChan, inputDone, wgCount,
          sc, rowsRead, wk, columnCount, rowCount, dbRows, rep, aborted,
          published, consumed>>

(***************************************************************************)
(* Bounds of the model.                                                    *)
(***************************************************************************)
MaxWorkers == 2
MaxBatch == 2
MaxLines == 3

(***************************************************************************)
(* Program options.                                                        *)
(***************************************************************************)
postgresConnect == flags.postgresConnect
workers == flags.workers
batchSize == flags.batchSize
doLoad == flags.doLoad
makeHypertable == flags.makeHypertable
logBatches == flags.logBatches
tagIndex == flags.tagIndex
fieldIndex == flags.fieldIndex
fieldIndexCount == flags.fieldIndexCount
numberPartitions == flags.numberPartitions

(***************************************************************************)
(* Text.  strings.Split(s, ",") of a line is the line itself (its tokens), *)
(* of the empty string it is the one empty token.                          *)
(***************************************************************************)
EmptyLine == << <<>> >>

Digits == {"0", "1", "2", "3", "4", "5", "6", "7", "8", "9"}

DigitVal(c) ==
    CASE c = "0" -> 0 [] c = "1" -> 1 [] c = "2" -> 2 [] c = "3" -> 3 [] c = "4" -> 4
      [] c = "5" -> 5 [] c = "6" -> 6 [] c = "7" -> 7 [] c = "8" -> 8 [] c = "9" -> 9

\* strings.SplitN(text, ",", 2): the first token and the unsplit remainder, or
\* the text alone when it holds no comma.  The remainder is kept as its tokens.
SplitN2(line) ==
    IF Len(line) >= 2 THEN <<Head(line), Tail(line)>> ELSE <<Head(line)>>

\* len(scanner.Bytes()) == 0
IsEmptyLine(line) == line = EmptyLine

RECURSIVE ParseUint(_)
ParseUint(s) ==
    IF s = <<>> THEN 0 ELSE 10 * ParseUint(SubSeq(s, 1, Len(s) - 1)) + DigitVal(s[Len(s)])

\* strconv.ParseInt(value, 10, 64): an optional sign, then one or more decimal
\* digits.  (A range error needs 19 digits; tokens here are shorter.)
ParseInt(s) ==
    LET signed == s # <<>> /\ s[1] \in {"+", "-"}
        body == IF signed THEN Tail(s) ELSE s
        ok == body # <<>> /\ \A i \in 1..Len(body) : body[i] \in Digits
    IN  [ok |-> ok,
         val |-> IF ~ok THEN 0
                 ELSE IF signed /\ s[1] = "-" THEN 0 - ParseUint(body) ELSE ParseUint(body)]

\* Go's integer / and % truncate toward zero.
GoDiv(a, b) == IF a >= 0 THEN a \div b ELSE 0 - ((0 - a) \div b)
GoMod(a, b) == a - b * GoDiv(a, b)

NanosPerSec == 1000000000

\* time.Unix(secs, timeInt%1e9).Format("2006-01-02 15:04:05.999999 -7:00"):
\* Unix normalises the nanoseconds into [0, 1e9); the layout keeps microseconds.
FormatTime(timeInt) ==
    LET secs == GoDiv(timeInt, NanosPerSec)
        nsec == GoMod(timeInt, NanosPerSec)
        s == IF nsec < 0 THEN secs - 1 ELSE secs
        n == IF nsec < 0 THEN nsec + NanosPerSec ELSE nsec
    IN  [sec |-> s, usec |-> n \div 1000]

\* The values handed to stmt.Exec for one row: the formatted time, then the
\* remaining fields as they are.
ExecArgs(sp) == <<FormatTime(ParseInt(sp[1]).val)>> \o Tail(sp)

(***************************************************************************)
(* initBenchmarkDB: the statements derived from one header line.           *)
(***************************************************************************)
\* The index statements of field number idx (0-based, as in the source) of a
\* header line, one per token of the index policy that applies to it.
RECURSIVE IndexesOf(_, _, _)
IndexesOf(hypertable, field, idxTypes) ==
    IF idxTypes = <<>> THEN <<>>
    ELSE LET idx == Head(idxTypes)
             indexDef == IF idx = "TIME-VALUE" THEN <<"time", field>>
                         ELSE IF idx = "VALUE-TIME" THEN <<field, "time">>
                         ELSE <<>>
         IN  (IF idx # "" THEN <<[op |-> "CREATE INDEX", table |-> hypertable, on |-> indexDef]>>
              ELSE <<>>)
             \o IndexesOf(hypertable, field, Tail(idxTypes))

IdxTypeOf(idx) == IF idx = 0 THEN tagIndex ELSE fieldIndex

\* mutant: the field at position fieldIndexCount is left out
IsIndexedBelow(idx) == fieldIndexCount = -1 \/ idx < fieldIndexCount

IsIndexed(idx) == fieldIndexCount = -1 \/ idx <= fieldIndexCount

\* mutant: the empty token panics like any other unknown token
UnknownIndexTypeOrEmpty(parts) ==
    \E k \in 2..Len(parts) :
        /\ Len(parts[k]) # 0
        /\ IsIndexed(k - 2)
        /\ \E j \in 1..Len(IdxTypeOf(k - 2)) :
               IdxTypeOf(k - 2)[j] \notin {"TIME-VALUE", "VALUE-TIME"}

\* panic(fmt.Sprintf("Unknown index type %v", idx))
UnknownIndexType(parts) ==
    \E k \in 2..Len(parts) :
        /\ Len(parts[k]) # 0
        /\ IsIndexed(k - 2)
        /\ \E j \in 1..Len(IdxTypeOf(k - 2)) :
               IdxTypeOf(k - 2)[j] \notin {"TIME-VALUE", "VALUE-TIME", ""}

RECURSIVE FieldDefs(_, _)
FieldDefs(parts, k) ==
    IF k > Len(parts) THEN <<>>
    ELSE (IF Len(parts[k]) = 0 THEN <<>>
          ELSE <<[name |-> parts[k],
                  type |-> IF k = 2 THEN "TEXT" ELSE "DOUBLE PRECISION"]>>)
         \o FieldDefs(parts, k + 1)

RECURSIVE IndexDefs(_, _)
IndexDefs(parts, k) ==
    IF k > Len(parts) THEN <<>>
    ELSE (IF Len(parts[k]) # 0 /\ IsIndexed(k - 2)
          THEN IndexesOf(parts[1], parts[k], IdxTypeOf(k - 2))
          ELSE <<>>)
         \o IndexDefs(parts, k + 1)

PartitioningField(parts) ==
    IF Len(parts) >= 2 /\ Len(parts[2]) # 0 THEN parts[2] ELSE <<>>

\* Everything one pass of the header loop executes for a non-empty line.
TableStatements(parts) ==
    <<[op |-> "CREATE TABLE", table |-> parts[1], cols |-> FieldDefs(parts, 2)]>>
    \o IndexDefs(parts, 2)
    \o (IF makeHypertable
        THEN <<[op |-> "create_hypertable", table |-> parts[1],
                partitioning_column |-> PartitioningField(parts),
                number_partitions |-> numberPartitions]>>
        ELSE <<>>)

\* The statements before the header loop.
SetupStatements ==
    <<[op |-> "DROP DATABASE IF EXISTS", db |-> "benchmark"],
      [op |-> "CREATE DATABASE", db |-> "benchmark"]>>
    \o (IF makeHypertable
        THEN <<[op |-> "CREATE EXTENSION IF NOT EXISTS", ext |-> "timescaledb"],
               [op |-> "setup_timescaledb"]>>
        ELSE <<>>)

(***************************************************************************)
(* The inputs and options the model runs over.                             *)
(***************************************************************************)
cpu == <<"c", "p", "u">>
mem == <<"m", "e", "m">>

\* cpu,1,a   mem,-2   cpu,x,a (time does not parse)   and the empty line (no comma)
DataLines ==
    { <<cpu, <<"1">>, <<"a">>>>,
      <<mem, <<"-", "2">>>>,
      <<cpu, <<"x">>, <<"a">>>>,
      EmptyLine }

\* the header section: the line cpu,h,u
Headers == { << <<cpu, <<"h">>, <<"u">>>> >> }

SeqsUpTo(S, n) == UNION { [1..k -> S] : k \in 0..n }

Inputs ==
    { h \o <<EmptyLine>> \o d : h \in Headers, d \in SeqsUpTo(DataLines, MaxLines) }
    \cup Headers

Flags ==
    [postgresConnect : {"host=postgres user=postgres sslmode=disable"},
     workers : 0..MaxWorkers,
     batchSize : 1..MaxBatch,
     doLoad : BOOLEAN,
     makeHypertable : {TRUE},
     logBatches : {FALSE},
     tagIndex : {<<"VALUE-TIME", "TIME-VALUE">>},
     fieldIndex : {<<"TIME-VALUE">>},
     fieldIndexCount : {-1},
     numberPartitions : {1}]

(***************************************************************************)
(* Runs over the index options: -tag-index, -field-index and               *)
(* -field-index-count vary, over headers of several shapes, with one       *)
(* worker and at most one data line.                                       *)
(***************************************************************************)
host == <<"h", "o", "s", "t">>
usage == <<"u", "s", "a", "g", "e">>
idle == <<"i", "d", "l", "e">>

\* strings.Split(idxType, ","): never the empty sequence; "" splits to <<"">>
IndexPolicies ==
    { <<"VALUE-TIME">>, <<"TIME-VALUE">>, <<"VALUE-TIME", "TIME-VALUE">>,
      <<"">>, <<"TIME-VALUE", "">>, <<"HASH">>, <<"VALUE-TIME", "HASH">> }

\* cpu,host,usage   cpu,host,usage,idle   cpu,,usage   and mem,host with cpu,host,usage
BootHeaders ==
    { << <<cpu, host, usage>> >>,
      << <<cpu, host, usage, idle>> >>,
      << <<cpu, <<>>, usage>> >>,
      << <<mem, host>>, <<cpu, host, usage>> >> }

BootInputs ==
    { h \o <<EmptyLine>> \o d : h \in BootHeaders, d \in {<<>>, << <<cpu, <<"1">>, <<"a">>>> >>} }

BootFlags ==
    [postgresConnect : {"host=postgres user=postgres sslmode=disable"},
     workers : {1},
     batchSize : {1},
     doLoad : BOOLEAN,
     makeHypertable : BOOLEAN,
     logBatches : {FALSE},
     tagIndex : IndexPolicies,
     fieldIndex : IndexPolicies,
     fieldIndexCount : {-1, 0, 1},
     numberPartitions : {1}]

NoBatch == [hypertable |-> <<>>, rows |-> <<>>]

\* a goroutine of processBatches before `go` has started it
WorkerOff == [pc |-> "off", batch |-> NoBatch, idx |-> 0, cols |-> 0, tx |-> <<>>, conn |-> "none"]

\* scan's map batch: a function from the hypertables met since the last flush
EmptyMap == [h \in {} |-> <<>>]

Init ==
    /\ flags \in Flags
    /\ stdin \in Inputs
    /\ pos = 0
    /\ mainPc = "start"
    /\ ddl = <<>>
    /\ spawned = 0
    /\ batchChan = [made |-> FALSE, closed |-> FALSE, buf |-> <<>>]
    /\ inputDone = "none"
    /\ wgCount = 0
    /\ sc = [batch |-> EmptyMap, n |-> 0, linesRead |-> 0, pending |-> {}]
    /\ rowsRead = 0
    /\ wk = [w \in 1..MaxWorkers |-> WorkerOff]
    /\ columnCount = 0
    /\ rowCount = 0
    /\ dbRows = {}
    /\ rep = [pc |-> "off", colCount |-> 0]
    /\ aborted = "none"
    /\ published = <<>>
    /\ consumed = <<>>

BootInit ==
    /\ flags \in BootFlags
    /\ stdin \in BootInputs
    /\ pos = 0
    /\ mainPc = "start"
    /\ ddl = <<>>
    /\ spawned = 0
    /\ batchChan = [made |-> FALSE, closed |-> FALSE, buf |-> <<>>]
    /\ inputDone = "none"
    /\ wgCount = 0
    /\ sc = [batch |-> EmptyMap, n |-> 0, linesRead |-> 0, pending |-> {}]
    /\ rowsRead = 0
    /\ wk = [w \in 1..MaxWorkers |-> WorkerOff]
    /\ columnCount = 0
    /\ rowCount = 0
    /\ dbRows = {}
    /\ rep = [pc |-> "off", colCount |-> 0]
    /\ aborted = "none"
    /\ published = <<>>
    /\ consumed = <<>>

\* The process is alive: no goroutine has panicked, log.Fatalf has not been
\* called and main has not returned.
Running == aborted = "none" /\ mainPc # "exited"

\* bufio.Scanner.Scan
ScanOk == pos < Len(stdin)
NextLine == stdin[pos + 1]

(***************************************************************************)
(* main, up to the call of scan.                                           *)
(***************************************************************************)
\* main 73-75 and initBenchmarkDB 246-257, or the else branch of main
MainStart ==
    /\ Running /\ mainPc = "start"
    /\ IF doLoad
       THEN /\ ddl' = ddl \o SetupStatements
            /\ mainPc' = "initdb"
       ELSE /\ ddl' = ddl
            /\ mainPc' = "skipHeader"
    /\ UNCHANGED <<flags, stdin, pos, spawned, batchChan, inputDone, wgCount, sc, rowsRead,
                   wk, columnCount, rowCount, dbRows, rep, aborted, published, consumed>>

\* one pass of the header loop of initBenchmarkDB (259-312)
InitHeaderLine ==
    /\ Running /\ mainPc = "initdb"
    /\ IF ~ScanOk
       THEN /\ mainPc' = "mkchan"
            /\ UNCHANGED <<pos, ddl, aborted>>
       ELSE /\ pos' = pos + 1
            /\ IF IsEmptyLine(NextLine)
               THEN /\ mainPc' = "mkchan"
                    /\ UNCHANGED <<ddl, aborted>>
               ELSE IF UnknownIndexType(NextLine)
               THEN /\ aborted' = "panic: unknown index type"
                    /\ UNCHANGED <<mainPc, ddl>>
               ELSE /\ ddl' = ddl \o TableStatements(NextLine)
                    /\ UNCHANGED <<mainPc, aborted>>
    /\ UNCHANGED <<flags, stdin, spawned, batchChan, inputDone, wgCount, sc, rowsRead,
                   wk, columnCount, rowCount, dbRows, rep, published, consumed>>

\* MustConnect / MustExec of initBenchmarkDB panics
InitDbFail ==
    /\ Running
    /\ \/ mainPc = "start" /\ doLoad
       \/ mainPc = "initdb" /\ ScanOk /\ ~IsEmptyLine(NextLine)
    /\ aborted' = "panic: database"
    /\ UNCHANGED <<flags, stdin, pos, mainPc, ddl, spawned, batchChan, inputDone, wgCount, sc,
                   rowsRead, wk, columnCount, rowCount, dbRows, rep, published, consumed>>

\* main 78-82: read the header
SkipHeaderLine ==
    /\ Running /\ mainPc = "skipHeader"
    /\ IF ~ScanOk
       THEN /\ mainPc' = "mkchan"
            /\ pos' = pos
       ELSE /\ pos' = pos + 1
            /\ mainPc' = IF IsEmptyLine(NextLine) THEN "mkchan" ELSE "skipHeader"
    /\ UNCHANGED <<flags, stdin, ddl, spawned, batchChan, inputDone, wgCount, sc, rowsRead,
                   wk, columnCount, rowCount, dbRows, rep, aborted, published, consumed>>

\* main 85-86
MakeChans ==
    /\ Running /\ mainPc = "mkchan"
    /\ batchChan' = [made |-> TRUE, closed |-> FALSE, buf |-> <<>>]
    /\ inputDone' = "open"
    /\ mainPc' = "spawn"
    /\ UNCHANGED <<flags, stdin, pos, ddl, spawned, wgCount, sc, rowsRead,
                   wk, columnCount, rowCount, dbRows, rep, aborted, published, consumed>>

\* mutant: the loop stops one worker early
SpawnOneLess == spawned < workers - 1

\* i < workers (88)
SpawnMore == spawned < workers

\* main 88-91: one pass of the loop, or its end
SpawnWorker ==
    /\ Running /\ mainPc = "spawn"
    /\ IF SpawnMore
       THEN /\ wgCount' = wgCount + 1
            /\ wk' = [wk EXCEPT ![spawned + 1].pc = "connect"]
            /\ spawned' = spawned + 1
            /\ mainPc' = mainPc
       ELSE /\ mainPc' = "goReport"
            /\ UNCHANGED <<wgCount, wk, spawned>>
    /\ UNCHANGED <<flags, stdin, pos, ddl, batchChan, inputDone, sc, rowsRead,
                   columnCount, rowCount, dbRows, rep, aborted, published, consumed>>

\* main 93
GoReport ==
    /\ Running /\ mainPc = "goReport"
    /\ rep' = [rep EXCEPT !.pc = "tick"]
    /\ mainPc' = "scan"
    /\ UNCHANGED <<flags, stdin, pos, ddl, spawned, batchChan, inputDone, wgCount, sc, rowsRead,
                   wk, columnCount, rowCount, dbRows, aborted, published, consumed>>

(***************************************************************************)
(* scan (137-177), run by the main goroutine.                              *)
(***************************************************************************)
\* mutant: the flush comes one line late
FlushDueLate(n) == n > batchSize

\* n >= itemsPerBatch (150)
FlushDue(n) == n >= batchSize

\* mutant: the row replaces the hypertable's rows instead of joining them
MapAppendOverwrites(batch, hypertable, row) ==
    [h \in DOMAIN batch \cup {hypertable} |-> IF h = hypertable THEN <<row>> ELSE batch[h]]

\* mutant: the row is put in front of the hypertable's rows
MapAppendInFront(batch, hypertable, row) ==
    [h \in DOMAIN batch \cup {hypertable} |->
        IF h = hypertable
        THEN <<row>> \o (IF h \in DOMAIN batch THEN batch[h] ELSE <<>>)
        ELSE batch[h]]

\* batch[hypertable] = append(batch[hypertable], row)
MapAppend(batch, hypertable, row) ==
    [h \in DOMAIN batch \cup {hypertable} |->
        IF h = hypertable
        THEN Append(IF h \in DOMAIN batch THEN batch[h] ELSE <<>>, row)
        ELSE batch[h]]

\* one pass of the read loop (141-158) up to the flush: a row is the text after
\* the first comma; src, the number of the line it came from, is a history tag
ScanLine ==
    /\ Running /\ mainPc = "scan" /\ ScanOk
    /\ pos' = pos + 1
    /\ LET parts == SplitN2(NextLine)
       IN  IF Len(parts) < 2
           THEN /\ aborted' = "panic: index out of range"
                /\ sc' = [sc EXCEPT !.linesRead = @ + 1]
                /\ mainPc' = mainPc
           ELSE LET row == [src |-> pos + 1, text |-> parts[2]]
                    b == MapAppend(sc.batch, parts[1], row)
                    n == sc.n + 1
                IN  /\ sc' = [batch |-> b, n |-> n, linesRead |-> sc.linesRead + 1,
                              pending |-> IF FlushDue(n) THEN DOMAIN b ELSE {}]
                    /\ mainPc' = IF FlushDue(n) THEN "flush" ELSE "scan"
                    /\ aborted' = aborted
    /\ UNCHANGED <<flags, stdin, ddl, spawned, batchChan, inputDone, wgCount, rowsRead,
                   wk, columnCount, rowCount, dbRows, rep, published, consumed>>

\* What follows the range loop over batch once its last entry is sent: in the
\* read loop the map is replaced and n reset (155-156), at the end of input
\* scan goes on to close inputDone.
\* mutant: the map and n are kept after a flush of the read loop
AfterSendKeeps(pending) ==
    IF pending # {} THEN [sc EXCEPT !.pending = pending]
    ELSE [sc EXCEPT !.pending = {}]

AfterSend(pending) ==
    IF pending # {} THEN [sc EXCEPT !.pending = pending]
    ELSE IF mainPc = "flush" THEN [sc EXCEPT !.pending = {}, !.batch = EmptyMap, !.n = 0]
    ELSE [sc EXCEPT !.pending = {}]

\* mutant: scan goes on to close inputDone after any flush
PcAfterSendCloses(pending) == IF pending # {} THEN mainPc ELSE "closeInputDone"

PcAfterSend(pending) ==
    IF pending # {} THEN mainPc
    ELSE IF mainPc = "flush" THEN "scan" ELSE "closeInputDone"

\* The batch the range loop sends for map entry h.
BatchOf(h) == [hypertable |-> h, rows |-> sc.batch[h]]

\* mutant: the channel is made one slot long
CanSendLong == Len(batchChan.buf) < workers + 1

\* mutant: the channel is made one slot short
CanSendShort == Len(batchChan.buf) < workers - 1

\* The channel takes a value without blocking.  (Capacity is `workers`; with
\* capacity 0 a send needs a waiting receiver, and there is no receiver then.)
CanSend == Len(batchChan.buf) < workers

\* batchChan <- &hypertableBatch{hypertable, rows} (152, 167): range over a map
\* visits its entries in an unspecified order
ScanSend(h) ==
    /\ Running /\ mainPc \in {"flush", "lastFlush"}
    /\ h \in sc.pending
    /\ batchChan.closed \/ CanSend
    /\ IF batchChan.closed
       THEN /\ aborted' = "panic: send on closed channel"
            /\ UNCHANGED <<batchChan, published, sc, mainPc>>
       ELSE /\ batchChan' = [batchChan EXCEPT !.buf = Append(@, BatchOf(h))]
            /\ published' = Append(published, [batch |-> BatchOf(h), final |-> mainPc = "lastFlush"])
            /\ sc' = AfterSend(sc.pending \ {h})
            /\ mainPc' = PcAfterSend(sc.pending \ {h})
            /\ aborted' = aborted
    /\ UNCHANGED <<flags, stdin, pos, ddl, spawned, inputDone, wgCount, rowsRead,
                   wk, columnCount, rowCount, dbRows, rep, consumed>>

\* scanner.Scan returned false (160-169); scanner.Err() tells whether the
\* input ended or failed
ScanEnd(err) ==
    /\ Running /\ mainPc = "scan" /\ ~ScanOk
    /\ IF err
       THEN /\ aborted' = "fatal: error reading input"
            /\ UNCHANGED <<sc, mainPc>>
       ELSE /\ aborted' = aborted
            /\ IF sc.n > 0
               THEN /\ sc' = [sc EXCEPT !.pending = DOMAIN sc.batch]
                    /\ mainPc' = "lastFlush"
               ELSE /\ sc' = sc
                    /\ mainPc' = "closeInputDone"
    /\ UNCHANGED <<flags, stdin, pos, ddl, spawned, batchChan, inputDone, wgCount, rowsRead,
                   wk, columnCount, rowCount, dbRows, rep, published, consumed>>

\* close(inputDone) and the return of linesRead (172-176)
CloseInputDone ==
    /\ Running /\ mainPc = "closeInputDone"
    /\ IF inputDone = "closed"
       THEN /\ aborted' = "panic: close of closed channel"
            /\ UNCHANGED <<inputDone, rowsRead, mainPc>>
       ELSE /\ inputDone' = "closed"
            /\ rowsRead' = sc.linesRead
            /\ mainPc' = "recvInputDone"
            /\ aborted' = aborted
    /\ UNCHANGED <<flags, stdin, pos, ddl, spawned, batchChan, wgCount, sc,
                   wk, columnCount, rowCount, dbRows, rep, published, consumed>>

(***************************************************************************)
(* main after scan (98-109).                                               *)
(***************************************************************************)
\* <-inputDone
RecvInputDone ==
    /\ Running /\ mainPc = "recvInputDone"
    /\ inputDone = "closed"
    /\ mainPc' = "closeChan"
    /\ UNCHANGED <<flags, stdin, pos, ddl, spawned, batchChan, inputDone, wgCount, sc, rowsRead,
                   wk, columnCount, rowCount, dbRows, rep, aborted, published, consumed>>

\* close(batchChan)
CloseBatchChan ==
    /\ Running /\ mainPc = "closeChan"
    /\ IF batchChan.closed
       THEN /\ aborted' = "panic: close of closed channel"
            /\ UNCHANGED <<batchChan, mainPc>>
       ELSE /\ batchChan' = [batchChan EXCEPT !.closed = TRUE]
            /\ mainPc' = "wait"
            /\ aborted' = aborted
    /\ UNCHANGED <<flags, stdin, pos, ddl, spawned, inputDone, wgCount, sc, rowsRead,
                   wk, columnCount, rowCount, dbRows, rep, published, consumed>>

\* workersGroup.Wait() returns; the summary is computed and printed
WaitWorkers ==
    /\ Running /\ mainPc = "wait"
    /\ wgCount = 0
    /\ mainPc' = "done"
    /\ UNCHANGED <<flags, stdin, pos, ddl, spawned, batchChan, inputDone, wgCount, sc, rowsRead,
                   wk, columnCount, rowCount, dbRows, rep, aborted, published, consumed>>

\* main returns: the process ends, whatever the other goroutines are doing
Exit ==
    /\ Running /\ mainPc = "done"
    /\ mainPc' = "exited"
    /\ UNCHANGED <<flags, stdin, pos, ddl, spawned, batchChan, inputDone, wgCount, sc, rowsRead,
                   wk, columnCount, rowCount, dbRows, rep, aborted, published, consumed>>

(***************************************************************************)
(* processBatches (180-243), one goroutine per worker w.                   *)
(***************************************************************************)
\* sqlx.MustConnect and the registration of the deferred Close (181-182)
WConnect(w) ==
    /\ Running /\ wk[w].pc = "connect"
    /\ wk' = [wk EXCEPT ![w].pc = "recv", ![w].conn = "open"]
    /\ UNCHANGED <<flags, stdin, pos, mainPc, ddl, spawned, batchChan, inputDone, wgCount, sc,
                   rowsRead, columnCount, rowCount, dbRows, rep, aborted, published, consumed>>

\* mutant: the batch is written whatever doLoad says
ReceiveAlwaysLoads(w, b) == [wk EXCEPT ![w].pc = "begin", ![w].batch = b, ![w].idx = 1]

\* What the worker does with a received batch: with doLoad off it goes straight
\* back to the receive (186-188), else it keeps the batch and starts to write it.
Receive(w, b) ==
    IF ~doLoad THEN wk
    ELSE [wk EXCEPT ![w].pc = "begin", ![w].batch = b, ![w].idx = 1]

\* `for hypertableBatch := range batchChan` receives a batch (185)
WRecv(w) ==
    /\ Running /\ wk[w].pc = "recv"
    /\ batchChan.buf # <<>>
    /\ batchChan' = [batchChan EXCEPT !.buf = Tail(@)]
    /\ consumed' = Append(consumed, Head(batchChan.buf))
    /\ wk' = Receive(w, Head(batchChan.buf))
    /\ UNCHANGED <<flags, stdin, pos, mainPc, ddl, spawned, inputDone, wgCount, sc,
                   rowsRead, columnCount, rowCount, dbRows, rep, aborted, published>>

\* mutant: the loop ends as soon as the channel is closed
RangeEndsOnClose == batchChan.closed

\* A receive from batchChan tells that no value will come: the channel is
\* closed and holds nothing.
RangeEnds == batchChan.buf = <<>> /\ batchChan.closed

\* the range loop ends
WRecvClosed(w) ==
    /\ Running /\ wk[w].pc = "recv"
    /\ RangeEnds
    /\ wk' = [wk EXCEPT ![w].pc = "wgDone"]
    /\ UNCHANGED <<flags, stdin, pos, mainPc, ddl, spawned, batchChan, inputDone, wgCount, sc,
                   rowsRead, columnCount, rowCount, dbRows, rep, aborted, published, consumed>>

\* dbBench.MustBegin and tx.Prepare of the COPY (193-199)
WBegin(w) ==
    /\ Running /\ wk[w].pc = "begin"
    /\ wk' = [wk EXCEPT ![w].pc = "rows", ![w].tx = <<>>]
    /\ UNCHANGED <<flags, stdin, pos, mainPc, ddl, spawned, batchChan, inputDone, wgCount, sc,
                   rowsRead, columnCount, rowCount, dbRows, rep, aborted, published, consumed>>

\* mutant: a time that does not parse is let through
RowAlwaysParses(w) == TRUE

\* strconv.ParseInt of the row's first field returns no error (206-209)
RowParses(w) == ParseInt(wk[w].batch.rows[wk[w].idx].text[1]).ok

\* The worker after one row of the batch (200-220): the row is executed on the
\* statement, unless its time does not parse.
\* mutant: a row counts as one column whatever its fields
AfterRowOneColumn(w) ==
    LET me == wk[w]
        row == me.batch.rows[me.idx]
        sp == row.text
    IN  IF RowParses(w)
        THEN [wk EXCEPT ![w].cols = @ + 1,
                        ![w].tx = Append(@, [src |-> row.src, args |-> ExecArgs(sp)]),
                        ![w].idx = @ + 1]
        ELSE [wk EXCEPT ![w].cols = @ + 1, ![w].conn = "closed"]

AfterRow(w) ==
    LET me == wk[w]
        row == me.batch.rows[me.idx]
        sp == row.text
    IN  IF RowParses(w)
        THEN [wk EXCEPT ![w].cols = @ + Len(sp),
                        ![w].tx = Append(@, [src |-> row.src, args |-> ExecArgs(sp)]),
                        ![w].idx = @ + 1]
        ELSE [wk EXCEPT ![w].cols = @ + Len(sp), ![w].conn = "closed"]

\* one pass of the loop over the rows; a panic runs the deferred Close
WRow(w) ==
    /\ Running /\ wk[w].pc = "rows"
    /\ wk[w].idx <= Len(wk[w].batch.rows)
    /\ wk' = AfterRow(w)
    /\ aborted' = IF RowParses(w) THEN aborted ELSE "panic: parse time"
    /\ UNCHANGED <<flags, stdin, pos, mainPc, ddl, spawned, batchChan, inputDone, wgCount, sc,
                   rowsRead, columnCount, rowCount, dbRows, rep, published, consumed>>

\* atomic.AddInt64(&columnCount, columnCountWorker) (221)
WAddColumns(w) ==
    /\ Running /\ wk[w].pc = "rows"
    /\ wk[w].idx > Len(wk[w].batch.rows)
    /\ columnCount' = columnCount + wk[w].cols
    /\ wk' = [wk EXCEPT ![w].pc = "addRows"]
    /\ UNCHANGED <<flags, stdin, pos, mainPc, ddl, spawned, batchChan, inputDone, wgCount, sc,
                   rowsRead, rowCount, dbRows, rep, aborted, published, consumed>>

\* mutant: the batch's rows are taken off the counter
RowsAddedNegated(w) == 0 - Len(wk[w].batch.rows)

\* mutant: the configured batch size is counted, not the batch's rows
RowsAddedBatchSize(w) == batchSize

\* int64(len(hypertableBatch.rows))
RowsAdded(w) == Len(wk[w].batch.rows)

\* atomic.AddInt64(&rowCount, int64(len(hypertableBatch.rows))) (222-223)
WAddRows(w) ==
    /\ Running /\ wk[w].pc = "addRows"
    /\ rowCount' = rowCount + RowsAdded(w)
    /\ wk' = [wk EXCEPT ![w].pc = "commit", ![w].cols = 0]
    /\ UNCHANGED <<flags, stdin, pos, mainPc, ddl, spawned, batchChan, inputDone, wgCount, sc,
                   rowsRead, columnCount, dbRows, rep, aborted, published, consumed>>

\* The rows a commit of worker w's transaction adds to the database.
TxRows(w) ==
    { [table |-> wk[w].batch.hypertable, src |-> wk[w].tx[i].src, args |-> wk[w].tx[i].args] :
        i \in 1..Len(wk[w].tx) }

\* stmt.Close and tx.Commit (225-240); the worker is done with the batch
WCommit(w) ==
    /\ Running /\ wk[w].pc = "commit"
    /\ dbRows' = dbRows \cup TxRows(w)
    /\ wk' = [wk EXCEPT ![w].pc = "recv", ![w].batch = NoBatch, ![w].tx = <<>>, ![w].idx = 0]
    /\ UNCHANGED <<flags, stdin, pos, mainPc, ddl, spawned, batchChan, inputDone, wgCount, sc,
                   rowsRead, columnCount, rowCount, rep, aborted, published, consumed>>

\* a database call of the worker fails and the worker panics: MustConnect,
\* MustBegin / Prepare, Exec, stmt.Close / Commit
WDbFail(w) ==
    /\ Running
    /\ \/ wk[w].pc \in {"connect", "begin", "commit"}
       \/ wk[w].pc = "rows" /\ wk[w].idx <= Len(wk[w].batch.rows) /\ RowParses(w)
    /\ aborted' = "panic: database"
    /\ wk' = [wk EXCEPT ![w].conn = IF wk[w].pc = "connect" THEN @ ELSE "closed"]
    /\ UNCHANGED <<flags, stdin, pos, mainPc, ddl, spawned, batchChan, inputDone, wgCount, sc,
                   rowsRead, columnCount, rowCount, dbRows, rep, published, consumed>>

\* workersGroup.Done() (242)
WDone(w) ==
    /\ Running /\ wk[w].pc = "wgDone"
    /\ wgCount' = wgCount - 1
    /\ wk' = [wk EXCEPT ![w].pc = "return"]
    /\ UNCHANGED <<flags, stdin, pos, mainPc, ddl, spawned, batchChan, inputDone, sc,
                   rowsRead, columnCount, rowCount, dbRows, rep, aborted, published, consumed>>

\* the function returns and the deferred dbBench.Close() runs (182)
WClose(w) ==
    /\ Running /\ wk[w].pc = "return"
    /\ wk' = [wk EXCEPT ![w].pc = "exited", ![w].conn = "closed"]
    /\ UNCHANGED <<flags, stdin, pos, mainPc, ddl, spawned, batchChan, inputDone, wgCount, sc,
                   rowsRead, columnCount, rowCount, dbRows, rep, aborted, published, consumed>>

(***************************************************************************)
(* report (111-134): one tick is two atomic loads, then the print.  The    *)
(* rates it prints are measured against the clock, which is not modelled;  *)
(* prevColCount, prevRowCount and prevTime feed only those rates.          *)
(***************************************************************************)
\* colCount := atomic.LoadInt64(&columnCount) (119)
ReportLoadColumns ==
    /\ Running /\ rep.pc = "tick"
    /\ rep' = [pc |-> "loaded", colCount |-> columnCount]
    /\ UNCHANGED <<flags, stdin, pos, mainPc, ddl, spawned, batchChan, inputDone, wgCount, sc,
                   rowsRead, wk, columnCount, rowCount, dbRows, aborted, published, consumed>>

\* rowCount := atomic.LoadInt64(&rowCount) and the print (120-131): the sample
\* printed is (rep.colCount, rowCount); the next tick declares colCount anew
ReportLoadRows ==
    /\ Running /\ rep.pc = "loaded"
    /\ rep' = [pc |-> "tick", colCount |-> 0]
    /\ UNCHANGED <<flags, stdin, pos, mainPc, ddl, spawned, batchChan, inputDone, wgCount, sc,
                   rowsRead, wk, columnCount, rowCount, dbRows, aborted, published, consumed>>

(***************************************************************************)
(* The program.                                                            *)
(***************************************************************************)
Main ==
    \/ MainStart \/ InitHeaderLine \/ SkipHeaderLine \/ MakeChans \/ SpawnWorker \/ GoReport
    \/ ScanLine \/ (\E h \in sc.pending : ScanSend(h)) \/ (\E err \in BOOLEAN : ScanEnd(err)) \/ CloseInputDone
    \/ RecvInputDone \/ CloseBatchChan \/ WaitWorkers \/ Exit

Worker(w) ==
    \/ WConnect(w) \/ WRecv(w) \/ WRecvClosed(w) \/ WBegin(w) \/ WRow(w)
    \/ WAddColumns(w) \/ WAddRows(w) \/ WCommit(w) \/ WDone(w) \/ WClose(w)

Report == ReportLoadColumns \/ ReportLoadRows

Failure == InitDbFail \/ (\E w \in 1..MaxWorkers : WDbFail(w))

Next == Main \/ (\E w \in 1..MaxWorkers : Worker(w)) \/ Report \/ Failure

Spec == Init /\ [][Next]_vars

\* the same program, started over the index options
BootSpec == BootInit /\ [][Next]_vars

\* The Go scheduler runs every goroutine that can take a step: main and each
\* worker keep going while they are not blocked.  No database call hangs, and
\* nothing obliges one to fail.
FairSpec ==
    /\ Init /\ [][Next]_vars
    /\ WF_vars(Main)
    /\ \A w \in 1..MaxWorkers : WF_vars(Worker(w))

(***************************************************************************)
(* What the properties below speak of.                                     *)
(***************************************************************************)
\* The header section ends with the first empty line, or with the input.
HeaderEnd ==
    IF \E k \in 1..Len(stdin) : stdin[k] = EmptyLine
    THEN CHOOSE k \in 1..Len(stdin) :
             stdin[k] = EmptyLine /\ \A j \in 1..(k - 1) : stdin[j] # EmptyLine
    ELSE Len(stdin)

\* The numbers of the data lines.
DataLineNos == (HeaderEnd + 1)..Len(stdin)

\* scan has returned to main.
ScanReturned == mainPc \in {"recvInputDone", "closeChan", "wait", "done", "exited"}

\* main is past workersGroup.Wait().
RunComplete == mainPc \in {"done", "exited"}

RECURSIVE SumRows(_)
SumRows(batches) ==
    IF batches = <<>> THEN 0 ELSE Len(Head(batches).rows) + SumRows(Tail(batches))

PublishedBatches == [i \in 1..Len(published) |-> published[i].batch]

\* Every (batch, row) position among the published batches.
PubRows == { p \in (1..Len(published)) \X (1..Len(stdin)) : p[2] <= Len(published[p[1]].batch.rows) }
PubRow(p) == published[p[1]].batch.rows[p[2]]

(***************************************************************************)
(* C1: when scan returns, the count it returns is the number of data lines *)
(* of the input and the sum of the row counts of the batches it sent, and  *)
(* every data line is a row of exactly one sent batch.                     *)
(***************************************************************************)
C1_NoRowLostOrDuplicated ==
    ScanReturned =>
        /\ rowsRead = Cardinality(DataLineNos)
        /\ rowsRead = SumRows(PublishedBatches)
        /\ \A k \in DataLineNos : Cardinality({ p \in PubRows : PubRow(p).src = k }) = 1
        /\ \A p \in PubRows : /\ PubRow(p).src \in DataLineNos
                              /\ PubRow(p).text = Tail(stdin[PubRow(p).src])

\* scan returned after reading three lines that went out in several batches
C1_Witness ==
    /\ ScanReturned /\ rowsRead = 3 /\ batchSize = 2
    /\ Len(published) = 3

(***************************************************************************)
(* C2: every batch sent holds between one row and batchSize rows, all of   *)
(* them lines of the batch's hypertable and of one flush; a flush sends at *)
(* most one batch per hypertable; the rows of a flush in the read loop add *)
(* up to batchSize, and only the flush at the end of input sends fewer.    *)
(***************************************************************************)
\* The flush a data line goes out with: scan flushes after every batchSize lines.
FlushOf(k) == (k - HeaderEnd - 1) \div batchSize

\* The flush of a published batch, and the data lines read for that flush.
FlushOfBatch(i) == FlushOf(published[i].batch.rows[1].src)
LinesOfFlush(f) == { k \in DataLineNos : FlushOf(k) = f /\ k <= pos }
BatchesOfFlush(f) == { i \in 1..Len(published) : FlushOfBatch(i) = f }

PubLen(i) == Len(published[i].batch.rows)

RECURSIVE SumPubLen(_)
SumPubLen(S) ==
    IF S = {} THEN 0 ELSE LET x == CHOOSE y \in S : TRUE IN PubLen(x) + SumPubLen(S \ {x})

\* C2: the shape of every batch sent on batchChan, and of the flush it belongs to
C2_BatchShape ==
    \A i \in 1..Len(published) :
        LET b == published[i].batch
            f == FlushOfBatch(i)
        IN  /\ Len(b.rows) >= 1
            /\ Len(b.rows) <= batchSize
            /\ \A j \in 1..Len(b.rows) :
                   /\ b.rows[j].src \in DataLineNos
                   /\ Head(stdin[b.rows[j].src]) = b.hypertable
                   /\ FlushOf(b.rows[j].src) = f
            /\ \A j \in BatchesOfFlush(f) : j # i => published[j].batch.hypertable # b.hypertable
            /\ ~published[i].final => Cardinality(LinesOfFlush(f)) = batchSize
            /\ published[i].final => Cardinality(LinesOfFlush(f)) < batchSize
            /\ sc.pending = {} => SumPubLen(BatchesOfFlush(f)) = Cardinality(LinesOfFlush(f))

\* a full flush of two one-row batches of different hypertables, then the
\* one-row flush at the end of input
C2_Witness ==
    /\ batchSize = 2 /\ Len(published) = 3
    /\ ~published[1].final /\ ~published[2].final /\ published[3].final
    /\ published[1].batch.hypertable # published[2].batch.hypertable
    /\ sc.pending = {}

(***************************************************************************)
(* C3: once main is past workersGroup.Wait() of a run that loads, rowCount *)
(* is the number of rows the workers committed, these are the data lines   *)
(* of the input, and rowCount is the count scan returned.                  *)
(***************************************************************************)
C3_CountersMatchCommitted ==
    (RunComplete /\ doLoad) =>
        /\ aborted = "none"
        /\ rowCount = Cardinality(dbRows)
        /\ { r.src : r \in dbRows } = DataLineNos
        /\ \A r \in dbRows : r.table = Head(stdin[r.src])
        /\ rowCount = rowsRead

\* a loading run of two workers that committed three rows has completed
C3_Witness ==
    /\ RunComplete /\ doLoad /\ workers = 2
    /\ rowCount = 3 /\ Cardinality(dbRows) = 3

(***************************************************************************)
(* C4: batchChan is closed only once inputDone is closed, and a worker has *)
(* called workersGroup.Done() only once batchChan is closed and empty,     *)
(* every published batch having been received.                             *)
(***************************************************************************)
\* Worker w has called workersGroup.Done().
Announced(w) == wk[w].pc \in {"return", "exited"}

C4_ShutdownOrder ==
    /\ batchChan.closed => inputDone = "closed"
    /\ \A w \in 1..MaxWorkers :
           Announced(w) =>
               /\ batchChan.closed
               /\ batchChan.buf = <<>>
               /\ consumed = PublishedBatches

\* one worker has announced while the other still writes the batch it received
C4_Witness ==
    /\ Len(published) >= 2
    /\ \E v, w \in 1..MaxWorkers : Announced(v) /\ wk[w].pc \in {"rows", "addRows", "commit"}

(***************************************************************************)
(* C5: with at least one worker, under fair scheduling, a run in which     *)
(* nothing fails gets past workersGroup.Wait() to the summary: the only    *)
(* runs that do not are those that a panic or log.Fatalf ended.            *)
(***************************************************************************)
C5_RunTerminates == (workers >= 1) => <>(RunComplete \/ aborted # "none")

\* a run of one worker is complete, its three batches published and received
C5_Witness ==
    /\ RunComplete /\ workers = 1 /\ aborted = "none"
    /\ Len(published) = 3 /\ consumed = PublishedBatches
    /\ \A w \in 1..workers : Announced(w)

(***************************************************************************)
(* C6: the rows in flight (read, and held in scan's map, in a batch in     *)
(* batchChan, or in a batch a worker has received and not yet finished     *)
(* with) number at most batchSize * (2 * workers + 1): the map holds up to *)
(* batchSize rows, the channel `workers` batches and the workers one each. *)
(***************************************************************************)
RowSrcs(rows) == { rows[j].src : j \in 1..Len(rows) }

\* scan's map lives until scan returns
HeldByReader ==
    IF ScanReturned THEN {} ELSE UNION { RowSrcs(sc.batch[h]) : h \in DOMAIN sc.batch }
HeldInQueue == UNION { RowSrcs(batchChan.buf[i].rows) : i \in 1..Len(batchChan.buf) }
HeldByWorkers == UNION { RowSrcs(wk[w].batch.rows) : w \in 1..MaxWorkers }

InFlight == Cardinality(HeldByReader \cup HeldInQueue \cup HeldByWorkers)

\* C6 (amended): at most batchSize * (2 * workers + 1) rows are in flight
C6_InFlightBound == InFlight <= batchSize * (2 * workers + 1)

\* C6 as stated: at most batchSize * (workers + 1) rows are in flight
C6_AsStated == InFlight <= batchSize * (workers + 1)

\* the bound is met: a worker, the channel and the reader hold a full batch each
C6_Witness ==
    /\ workers >= 1
    /\ InFlight = batchSize * (2 * workers + 1)
    /\ HeldByWorkers # {} /\ HeldInQueue # {} /\ HeldByReader # {}

(***************************************************************************)
(* C7: with doLoad off the counters stay zero and nothing is written; and  *)
(* in either mode a completed run has received from batchChan the number   *)
(* of batches that the data lines and batchSize alone determine (one per   *)
(* hypertable met in each run of batchSize lines), so the two modes        *)
(* receive the same number of batches for the same data.                   *)
(***************************************************************************)
ExpectedBatches == Cardinality({ <<FlushOf(k), Head(stdin[k])>> : k \in DataLineNos })

\* C7: a dry run leaves the counters at zero and receives as many batches as a loading run
C7_DryRun ==
    /\ ~doLoad => (rowCount = 0 /\ columnCount = 0 /\ dbRows = {})
    /\ RunComplete => Len(consumed) = ExpectedBatches

\* a dry run has completed after its workers received three batches
C7_Witness ==
    /\ ~doLoad /\ RunComplete /\ workers >= 1
    /\ Len(consumed) = 3 /\ rowCount = 0 /\ columnCount = 0

(***************************************************************************)
(* C8: a row whose time does not parse ends the run where it stands: the   *)
(* worker has executed only the rows before it, its transaction is not     *)
(* committed, no batch holding such a row is ever counted or committed,    *)
(* and nothing runs after the panic.                                       *)
(***************************************************************************)
BadRow(row) == ~ParseInt(row.text[1]).ok
BadBatch(b) == \E j \in 1..Len(b.rows) : BadRow(b.rows[j])

\* The received batches whose rows have been added to rowCount: all but those
\* a worker holds and has not yet counted.
Uncounted(b) == \E w \in 1..MaxWorkers : wk[w].batch = b /\ wk[w].pc \in {"begin", "rows", "addRows"}
CountedBatches == SelectSeq(consumed, LAMBDA b : ~Uncounted(b))

C9_CloseOnce ==
    /\ aborted \notin {"panic: close of closed channel", "panic: send on closed channel"}
    /\ ScanReturned <=> inputDone = "closed"
    /\ inputDone = "closed" =>
           /\ ~ScanOk /\ sc.pending = {}
           /\ SumRows(PublishedBatches) = Cardinality(DataLineNos)
           /\ \A i \in 1..Len(published) : published[i].batch.rows # <<>>
    /\ batchChan.closed <=> mainPc \in {"wait", "done", "exited"}
    /\ batchChan.closed => inputDone = "closed"

\* batchChan is closed while it still holds a published batch
C9_Witness ==
    /\ batchChan.closed /\ inputDone = "closed"
    /\ Len(published) = 3 /\ batchChan.buf # <<>>

(***************************************************************************)
(* C10: main starts things in order: the header is consumed and all its    *)
(* statements are executed before the channels exist; the channels exist   *)
(* before a worker is started; all `workers` workers are started before    *)
(* report is; and report is started before scan reads a line.              *)
(***************************************************************************)
HeaderLineNos == { k \in 1..HeaderEnd : stdin[k] # EmptyLine }

RECURSIVE HeaderStatements(_)
HeaderStatements(k) ==
    IF k > HeaderEnd THEN <<>>
    ELSE (IF k \in HeaderLineNos THEN TableStatements(stdin[k]) ELSE <<>>)
         \o HeaderStatements(k + 1)

BootstrapFinished ==
    /\ mainPc \notin {"start", "initdb", "skipHeader"}
    /\ pos >= HeaderEnd
    /\ ddl = IF doLoad THEN SetupStatements \o HeaderStatements(1) ELSE <<>>

Started(w) == wk[w].pc # "off"
AllWorkersStarted == \A w \in 1..MaxWorkers : Started(w) <=> w <= workers

\* C10: header and schema, then the channels, then the workers, then report, then scan
C10_StartupOrder ==
    /\ batchChan.made => BootstrapFinished
    /\ \A w \in 1..MaxWorkers : Started(w) => (batchChan.made /\ w <= workers)
    /\ rep.pc # "off" => AllWorkersStarted
    /\ (mainPc = "scan" \/ sc.linesRead > 0 \/ published # <<>>) =>
           (AllWorkersStarted /\ rep.pc # "off")

\* scan has read its first line while a started worker has yet to connect
C10_Witness ==
    /\ doLoad /\ workers = 2 /\ sc.linesRead = 1
    /\ AllWorkersStarted /\ rep.pc # "off"
    /\ \E w \in 1..workers : wk[w].pc = "connect"
    /\ Len(ddl) > 4

(***************************************************************************)
(* C11: no step of the program lowers rowCount or columnCount.             *)
(***************************************************************************)
C11_CountersMonotonic == [][rowCount' >= rowCount /\ columnCount' >= columnCount]_vars

\* both counters have risen twice, while report holds a column count it loaded
C11_Witness ==
    /\ rowCount = 2 /\ columnCount = 3
    /\ Len(consumed) >= 2 /\ rep.pc = "loaded"

(***************************************************************************)
(* The index statements of a header line, read off the statements issued.  *)
(***************************************************************************)
\* header line k has gone through the whole loop body of initBenchmarkDB
LineBootstrapped(k) ==
    /\ doLoad /\ mainPc # "start"
    /\ k \in HeaderLineNos /\ k <= pos
    /\ ~(aborted = "panic: unknown index type" /\ pos = k)

IndexStatements(t) ==
    SelectSeq(ddl, LAMBDA st : st.op = "CREATE INDEX" /\ st.table = t)

\* the composite ordering an index-type token names
OrderingOf(tok, field) ==
    IF tok = "VALUE-TIME" THEN <<field, "time">>
    ELSE IF tok = "TIME-VALUE" THEN <<"time", field>>
    ELSE <<>>

\* the policy of the role of the k-th part of a header line: part 2 is the tag
PolicyOfPart(k) == IF k = 2 THEN tagIndex ELSE fieldIndex

\* <<k, j>>: part k of the line is indexed with token j of its role's policy
IndexSlots(parts) ==
    { kj \in (2..Len(parts)) \X (1..2) :
        /\ kj[2] <= Len(PolicyOfPart(kj[1]))
        /\ parts[kj[1]] # <<>>
        /\ PolicyOfPart(kj[1])[kj[2]] # ""
        /\ (fieldIndexCount = -1 \/ kj[1] - 2 <= fieldIndexCount) }

\* the same without the limit of -field-index-count and without skipping anything
AllSlots(parts) ==
    { kj \in (2..Len(parts)) \X (1..2) : kj[2] <= Len(PolicyOfPart(kj[1])) }

SlotBefore(a, b) == a[1] < b[1] \/ (a[1] = b[1] /\ a[2] < b[2])

\* the index statements of table parts[1] are those of the slots, in slot order
IndexesAre(parts, slots) ==
    LET ix == IndexStatements(parts[1])
    IN  /\ Len(ix) = Cardinality(slots)
        /\ \A kj \in slots :
              LET r == Cardinality({ q \in slots : SlotBefore(q, kj) }) + 1
              IN  ix[r].on = OrderingOf(PolicyOfPart(kj[1])[kj[2]], parts[kj[1]])

KnownTokens(policy) == \A j \in 1..Len(policy) : policy[j] \in {"VALUE-TIME", "TIME-VALUE"}

(***************************************************************************)
(* C12: for a header line the bootstrap has processed, the first field,    *)
(* when not empty, gets one index per non-empty token of the tag policy,   *)
(* and each later non-empty field within -field-index-count (every later   *)
(* field when it is -1) gets one index per non-empty token of the          *)
(* measurement policy; VALUE-TIME gives (field,time), TIME-VALUE gives     *)
(* (time,field).  Header cpu,host,usage with tag policy {VALUE-TIME} and   *)
(* measurement policy {TIME-VALUE} gives (host,time) and (time,usage).     *)
(***************************************************************************)
C12_IndexDerivation ==
    \A k \in 1..Len(stdin) :
        LineBootstrapped(k) =>
            /\ IndexesAre(stdin[k], IndexSlots(stdin[k]))
            /\ ( /\ stdin[k] = <<cpu, host, usage>>
                 /\ tagIndex = <<"VALUE-TIME">> /\ fieldIndex = <<"TIME-VALUE">>
                 /\ fieldIndexCount = -1 )
               => IndexStatements(cpu) =
                    <<[op |-> "CREATE INDEX", table |-> cpu, on |-> <<host, "time">>],
                      [op |-> "CREATE INDEX", table |-> cpu, on |-> <<"time", usage>>]>>

\* C12 as stated: every field gets one index per token of its role's policy,
\* for policies of VALUE-TIME and TIME-VALUE tokens and headers without empty fields
C12_AsStated ==
    \A k \in 1..Len(stdin) :
        ( /\ LineBootstrapped(k)
          /\ KnownTokens(tagIndex) /\ KnownTokens(fieldIndex)
          /\ \A i \in 2..Len(stdin[k]) : stdin[k][i] # <<>> )
        => IndexesAre(stdin[k], AllSlots(stdin[k]))

\* cpu,host,usage was bootstrapped under the policies of the scenario
C12_Witness ==
    /\ \E k \in 1..Len(stdin) : LineBootstrapped(k) /\ stdin[k] = <<cpu, host, usage>>
    /\ tagIndex = <<"VALUE-TIME">> /\ fieldIndex = <<"TIME-VALUE">> /\ fieldIndexCount = -1
    /\ Len(IndexStatements(cpu)) = 2
    /\ batchChan.made

(***************************************************************************)
(* C13: rowCount is at most the number of rows of the batches whose        *)
(* transaction has committed.                                              *)
(***************************************************************************)
C13_CountedAfterCommit == rowCount <= Cardinality(dbRows)

(***************************************************************************)
(* C14: once main is past workersGroup.Wait(), every worker's connection   *)
(* has been closed.                                                        *)
(***************************************************************************)
C14_ConnectionsReleased ==
    (mainPc \in {"done", "exited"} /\ aborted = "none")
        => \A w \in 1..workers : wk[w].conn = "closed"

(***************************************************************************)
(* The samples of report.  report loads columnCount (119) and then         *)
(* rowCount (120): in a state with rep.pc = "loaded" the pair it is about  *)
(* to print is (rep.colCount, rowCount).                                   *)
(***************************************************************************)
RECURSIVE ColsOfRows(_)
ColsOfRows(rows) ==
    IF rows = <<>> THEN 0 ELSE Len(Head(rows).text) + ColsOfRows(Tail(rows))

\* field and row totals of the batches consumed[i], i in S and i <= n
RECURSIVE ColsOfBatches(_, _)
ColsOfBatches(S, n) ==
    IF n = 0 THEN 0
    ELSE (IF n \in S THEN ColsOfRows(consumed[n].rows) ELSE 0) + ColsOfBatches(S, n - 1)

RECURSIVE RowsOfBatches(_, _)
RowsOfBatches(S, n) ==
    IF n = 0 THEN 0
    ELSE (IF n \in S THEN Len(consumed[n].rows) ELSE 0) + RowsOfBatches(S, n - 1)

SamplePending == Running /\ rep.pc = "loaded"

(***************************************************************************)
(* C15: each value report samples is the total of a set of batches workers *)
(* have received, the column count over one set and the row count over a   *)
(* possibly different set, and the sampled column count is a value the     *)
(* counter has reached.                                                    *)
(***************************************************************************)
C15_SamplesAreBatchTotals ==
    SamplePending =>
        /\ rep.colCount <= columnCount
        /\ \E S \in SUBSET (1..Len(consumed)) :
               ColsOfBatches(S, Len(consumed)) = rep.colCount
        /\ \E S \in SUBSET (1..Len(consumed)) :
               RowsOfBatches(S, Len(consumed)) = rowCount

\* C15 as stated: one set of batches gives both sampled values
C15_AsStated ==
    SamplePending =>
        \E S \in SUBSET (1..Len(consumed)) :
            /\ ColsOfBatches(S, Len(consumed)) = rep.colCount
            /\ RowsOfBatches(S, Len(consumed)) = rowCount

\* report holds the fields of two batches and is about to load the rows of one
C15_Witness ==
    /\ SamplePending
    /\ Len(consumed) >= 2
    /\ rep.colCount = 3 /\ rowCount = 1

(***************************************************************************)
(* The accumulators of scan: the rows held in the map, against n.          *)
(***************************************************************************)
RECURSIVE RowsHeld(_)
RowsHeld(hs) ==
    IF hs = {} THEN 0
    ELSE LET h == CHOOSE x \in hs : TRUE IN Len(sc.batch[h]) + RowsHeld(hs \ {h})

\* the flush scan is in the middle of, when mainPc = "flush"
CurrentFlush == FlushOf(pos)

(***************************************************************************)
(* C16: for batchSize >= 1, n is the number of rows in the map and no map  *)
(* entry is empty; while scan reads, n is below batchSize and the batches  *)
(* sent hold exactly the lines of the full flushes, none of them sent by   *)
(* the flush at the end of input; scan is in a flush of the read loop only *)
(* with n = batchSize, and the entries already sent together with those    *)
(* still to send hold every line read; a finished flush of the read loop   *)
(* sent one batch per map entry, batchSize rows in all, and left the map   *)
(* empty and n at zero.                                                    *)
(***************************************************************************)
C16_FlushAtBatchSize ==
    /\ sc.n = RowsHeld(DOMAIN sc.batch)
    /\ \A h \in DOMAIN sc.batch : sc.batch[h] # <<>>
    /\ sc.pending \subseteq DOMAIN sc.batch
    /\ (mainPc = "scan" /\ aborted = "none") =>
           /\ sc.n < batchSize /\ sc.pending = {}
           /\ sc.n = sc.linesRead % batchSize
           /\ SumRows(PublishedBatches) = sc.linesRead - sc.n
           /\ \A i \in 1..Len(published) : ~published[i].final
           /\ (sc.linesRead % batchSize = 0) => (sc.batch = EmptyMap /\ sc.n = 0)
    /\ mainPc = "flush" =>
           /\ sc.n = batchSize /\ sc.pending # {}
           /\ SumRows(PublishedBatches) + RowsHeld(sc.pending) = sc.linesRead
           /\ \A h \in DOMAIN sc.batch \ sc.pending :
                  \E i \in BatchesOfFlush(CurrentFlush) : published[i].batch = BatchOf(h)
    /\ \A i \in 1..Len(published) :
           (~published[i].final /\ ~(mainPc = "flush" /\ FlushOfBatch(i) = CurrentFlush)) =>
               SumPubLen(BatchesOfFlush(FlushOfBatch(i))) = batchSize

\* scan is back at reading after a flush of two one-row batches, the map empty
C16_Witness ==
    /\ mainPc = "scan" /\ aborted = "none" /\ ScanOk
    /\ batchSize = 2 /\ sc.linesRead = 2
    /\ Len(published) = 2
    /\ published[1].batch.hypertable # published[2].batch.hypertable
    /\ sc.batch = EmptyMap /\ sc.n = 0

(***************************************************************************)
(* C17: batchChan never holds more than `workers` batches; the batches     *)
(* workers have received, in the order of their receives, followed by the  *)
(* batches on the channel, are the batches scan sent, in the order it sent *)
(* them; no batch is received twice and no two workers hold the same       *)
(* batch; a run whose workers have all returned has left none on the       *)
(* channel; and scan cannot send while the channel holds `workers`         *)
(* batches.                                                                *)
(***************************************************************************)
C17_FifoQueue ==
    /\ Len(batchChan.buf) <= workers
    /\ PublishedBatches = consumed \o batchChan.buf
    /\ \A i, j \in 1..Len(consumed) : i # j => consumed[i] # consumed[j]
    /\ \A w \in 1..MaxWorkers :
           wk[w].batch # NoBatch =>
               /\ \E i \in 1..Len(consumed) : consumed[i] = wk[w].batch
               /\ \A v \in 1..MaxWorkers : v # w => wk[v].batch # wk[w].batch
    /\ (RunComplete /\ aborted = "none") => batchChan.buf = <<>>
    /\ (Len(batchChan.buf) = workers /\ ~batchChan.closed) =>
           \A h \in sc.pending : ~ENABLED ScanSend(h)

\* scan has a third batch to send while the channel of two workers holds the
\* first two, in the order they were sent
C17_Witness ==
    /\ workers = 2 /\ Len(batchChan.buf) = 2
    /\ batchChan.buf = PublishedBatches
    /\ sc.pending # {} /\ mainPc \in {"flush", "lastFlush"}
    /\ aborted = "none"

(***************************************************************************)
(* The index-type tokens the loop of initBenchmarkDB goes through for a    *)
(* header line: those of the policy of every non-empty field within        *)
(* -field-index-count.                                                     *)
(***************************************************************************)
TokensMet(parts) ==
    { PolicyOfPart(kj[1])[kj[2]] :
        kj \in { x \in (2..Len(parts)) \X (1..2) :
                   /\ x[2] <= Len(PolicyOfPart(x[1]))
                   /\ parts[x[1]] # <<>>
                   /\ (fieldIndexCount = -1 \/ x[1] - 2 <= fieldIndexCount) } }

MeetsUnknownToken(parts) ==
    \E t \in TokensMet(parts) : t \notin {"TIME-VALUE", "VALUE-TIME", ""}

StatementsOn(t) ==
    { i \in 1..Len(ddl) :
        ddl[i].op \in {"CREATE TABLE", "CREATE INDEX", "create_hypertable"} /\ ddl[i].table = t }

AtSend == mainPc \in {"flush", "lastFlush"}

NoWorkerSafety ==
    workers = 0 =>
        /\ published = <<>> /\ batchChan.buf = <<>>
        /\ AtSend => (sc.pending # {} /\ ~ENABLED Main)
        /\ DataLineNos # {} =>
               /\ inputDone # "closed" /\ ~batchChan.closed /\ ~RunComplete
               /\ (aborted = "none" /\ ~AtSend) => ENABLED Main

(***************************************************************************)
(* C19: with workers = 0 nothing is ever sent on batchChan.  If the input  *)
(* has a data line, inputDone is never closed, batchChan is never closed   *)
(* and main never gets past workersGroup.Wait(): main goes on until it     *)
(* stops at the first send of scan (or panics on a line without a comma    *)
(* or a read error before it), and no step of main is possible there.  If  *)
(* the input has no data line, main gets past workersGroup.Wait() unless   *)
(* the run aborts.                                                         *)
(***************************************************************************)
C19_NoWorkers ==
    /\ []NoWorkerSafety
    /\ (workers = 0 /\ DataLineNos = {}) => <>(RunComplete \/ aborted # "none")

\* without workers, scan stands at its first send with the one line it read
C19_Witness ==
    /\ workers = 0 /\ aborted = "none"
    /\ mainPc = "flush" /\ sc.linesRead = 1 /\ sc.pending # {}
    /\ batchChan.made /\ inputDone = "open"

(***************************************************************************)
(* The order of the rows of one hypertable through scan.                   *)
(***************************************************************************)
\* the numbers of the lines of hypertable h that scan has sent, in the order of
\* the batches and of the rows within each batch
RECURSIVE SentSrcs(_, _)
SentSrcs(h, n) ==
    IF n = 0 THEN <<>>
    ELSE SentSrcs(h, n - 1)
         \o (IF published[n].batch.hypertable = h
             THEN [j \in 1..Len(published[n].batch.rows) |-> published[n].batch.rows[j].src]
             ELSE <<>>)

Hypertables == { Head(stdin[k]) : k \in DataLineNos }

LinesOf(h) == { k \in DataLineNos : Head(stdin[k]) = h }

(***************************************************************************)
(* C20: within every batch sent the rows are in the order their lines were *)
(* read; of two batches of one hypertable, every row of the one sent first *)
(* was read before every row of the other; and when scan has returned, the *)
(* rows of a hypertable's batches, taken in the order the batches were     *)
(* sent, are that hypertable's lines of the input in input order.          *)
(***************************************************************************)
C20_OrderPreserved ==
    /\ \A i \in 1..Len(published) :
           LET rows == published[i].batch.rows
           IN  \A a, b \in 1..Len(rows) : a < b => rows[a].src < rows[b].src
    /\ \A i, j \in 1..Len(published) :
           (i < j /\ published[i].batch.hypertable = published[j].batch.hypertable) =>
               \A a \in 1..Len(published[i].batch.rows), b \in 1..Len(published[j].batch.rows) :
                   published[i].batch.rows[a].src < published[j].batch.rows[b].src
    /\ ScanReturned =>
           \A h \in Hypertables :
               LET sent == SentSrcs(h, Len(published))
               IN  /\ Len(sent) = Cardinality(LinesOf(h))
                   /\ \A a \in 1..Len(sent) :
                          /\ sent[a] \in LinesOf(h)
                          /\ Cardinality({ k \in LinesOf(h) : k < sent[a] }) = a - 1

\* scan returned after sending a batch of two rows of one hypertable and then
\* another batch of that hypertable
C20_Witness ==
    /\ ScanReturned /\ Len(published) = 2
    /\ Len(published[1].batch.rows) = 2
    /\ published[1].batch.hypertable = published[2].batch.hypertable

====
